---- MODULE Spec2Model ----
(***************************************************************************)
(* SetVer (src/src/lib.rs): a version is a hereditarily finite set written *)
(* as nested braces.  A text is a sequence of characters; a SetVersion is  *)
(* the sequence of its children in the iteration order of its BTreeSet     *)
(* (strictly ascending under the derived Ord).                             *)
(***************************************************************************)
EXTENDS Integers, Sequences, FiniteSets, TLC

\* ------------------------------------------------------------------ bounds
\* longest text over the whole alphabet (braces and illegal characters)
MaxMixedLen == 5
\* most brace pairs of a balanced text given to the parser alone
MaxPairs == 9
\* most brace pairs of each of two balanced texts given together
MaxPairPairs == 5
\* longest arbitrary brace text given to the codec
MaxCodecLen == 9
\* how far around the u128 width the long codec texts reach
LongSlack == 9
\* longest tail written after the padding of a long codec text
MaxTailLen == 2

\* ------------------------------------------------------- program constants
\* bits of a u128 (lib.rs:129, `128 / 8`) and bits of a u8
U128Bits == 128
U8Bits == 8

\* ------------------------------------------------------------- characters
OpenBrace == "{"
CloseBrace == "}"
Braces == {OpenBrace, CloseBrace}
\* two characters outside the alphabet: 'a' (one byte of UTF-8) and
\* U+00E9 (two bytes of UTF-8)
Alphabet == Braces \cup {"a", "U+00E9"}
\* no character (Option<char>::None)
NoChar == ""

\* char::len_utf8, as str::len counts bytes
Utf8Len(c) == IF c = "U+00E9" THEN 2 ELSE 1

RECURSIVE StrLenRange(_, _, _)
\* the bytes of the characters value[lo..hi]
StrLenRange(value, lo, hi) ==
    IF lo > hi THEN 0
    ELSE IF lo = hi THEN Utf8Len(value[lo])
    ELSE LET mid == (lo + hi) \div 2
         IN  StrLenRange(value, lo, mid) + StrLenRange(value, mid + 1, hi)

\* str::len: the length of the text in bytes
StrLen(value) == StrLenRange(value, 1, Len(value))

\* ------------------------------------------------------ SetVersion values
\* SetVersion::default(): the empty set
Default == <<>>

RECURSIVE Cmp(_, _)
\* #[derive(Ord)] on SetVersion: BTreeSet's Ord, the lexicographic comparison
\* of the two iterations (ascending children), Rc comparing by its content.
\* -1 is Less, 0 is Equal, 1 is Greater.
Cmp(a, b) ==
    IF a = <<>> THEN (IF b = <<>> THEN 0 ELSE -1)
    ELSE IF b = <<>> THEN 1
    ELSE LET c == Cmp(Head(a), Head(b))
         IN  IF c # 0 THEN c ELSE Cmp(Tail(a), Tail(b))

\* #[derive(PartialEq)] on SetVersion: the two BTreeSets hold equal elements
Eq(a, b) == Cmp(a, b) = 0

\* BTreeSet::contains
Contains(versions, x) == \E i \in DOMAIN versions : Cmp(versions[i], x) = 0

\* an insert that keeps the order of arrival (a Vec without duplicates
\* instead of an ordered set)
InsertUnordered(versions, x) ==
    IF Contains(versions, x) THEN versions ELSE Append(versions, x)

RECURSIVE BTreeSetInsert(_, _)
\* BTreeSet::insert: the set stays ascending, an element already present is
\* not added again
BTreeSetInsert(versions, x) ==
    IF versions = <<>> THEN <<x>>
    ELSE LET c == Cmp(x, Head(versions))
         IN  IF c = 0 THEN versions
             ELSE IF c < 0 THEN <<x>> \o versions
             ELSE <<Head(versions)>> \o BTreeSetInsert(Tail(versions), x)

\* SetVersion::add_child_version
add_child_version(self, child) == BTreeSetInsert(self, child)

\* SetVersion::is_subset: BTreeSet::is_subset
is_subset(self, other) == \A i \in DOMAIN self : Contains(other, self[i])

\* SetVersion::is_superset: BTreeSet::is_superset
is_superset(self, other) == \A i \in DOMAIN other : Contains(self, other[i])

\* SetVersion::is_strict_subset
is_strict_subset(self, other) == ~is_superset(other, self)

\* SetVersion::is_strict_superset
is_strict_superset(self, other) == ~is_subset(other, self)

\* SetVersion::setver_compare; the f32 results are named
setver_compare(self, other) ==
    IF is_subset(self, other) THEN "0.0"
    ELSE IF Eq(self, other) THEN "1.0"
    ELSE IF is_subset(other, self) THEN "inf"
    ELSE "NaN"

\* ---------------------------------------------------------------- Display
RECURSIVE FmtChildrenReversed(_)
\* the children written last to first
FmtChildrenReversed(versions) ==
    IF versions = <<>> THEN <<>>
    ELSE FmtChildrenReversed(Tail(versions))
         \o <<OpenBrace>> \o FmtChildrenReversed(Head(versions)) \o <<CloseBrace>>

RECURSIVE FmtChildren(_)
\* the loop of Display::fmt: each child written in iteration order
FmtChildren(versions) ==
    IF versions = <<>> THEN <<>>
    ELSE <<OpenBrace>> \o FmtChildren(Head(versions)) \o <<CloseBrace>>
         \o FmtChildren(Tail(versions))

\* impl Display for SetVersion, and String::from(&SetVersion)
Fmt(self) == <<OpenBrace>> \o FmtChildren(self) \o <<CloseBrace>>

\* ---------------------------------------------------------------- FromStr
\* Result<SetVersion, SetVerParseError>; kind "None" is a result not yet
\* computed
NoResult == [kind |-> "None", ch |-> NoChar, val |-> Default]
Ok(v) == [kind |-> "Ok", ch |-> NoChar, val |-> v]
Err(k) == [kind |-> k, ch |-> NoChar, val |-> Default]
IllegalCharacter(c) == [kind |-> "IllegalCharacter", ch |-> c, val |-> Default]

\* The variables of the loop `for next_char in &mut chars` of from_str:
\* brace_level and inner_sets, with taken, the number of characters the
\* iterator chars has yielded, exited, whether the loop was left by break or
\* return, and illegal, the character the return reports (if one).
\* Before the loop: brace_level = 1, inner_sets = vec![""].
ScanStart ==
    [brace_level |-> 1, inner_sets |-> << <<>> >>, taken |-> 0,
     exited |-> FALSE, illegal |-> NoChar]

\* one turn of the loop, for the character next_char
ScanStep(st, next_char) ==
    IF st.exited THEN st
    ELSE LET level == IF next_char = OpenBrace
                      THEN st.brace_level + 1 ELSE st.brace_level - 1
             pushed == [st.inner_sets EXCEPT
                          ![Len(st.inner_sets)] = Append(@, next_char)]
         IN  IF next_char \notin Braces
             THEN [st EXCEPT !.taken = @ + 1, !.exited = TRUE,
                             !.illegal = next_char]
             ELSE IF level = 0
             THEN [st EXCEPT !.taken = @ + 1, !.exited = TRUE,
                             !.brace_level = 0]
             ELSE [st EXCEPT !.taken = @ + 1, !.brace_level = level,
                             !.inner_sets = IF level = 1
                                            THEN Append(pushed, <<>>)
                                            ELSE pushed]

RECURSIVE Scan(_, _, _, _)
\* the loop over the characters chars[lo..hi], in order
Scan(chars, lo, hi, st) ==
    IF lo > hi THEN st
    ELSE IF lo = hi THEN ScanStep(st, chars[lo])
    ELSE LET mid == (lo + hi) \div 2
             first == Scan(chars, lo, mid, st)
         IN  IF first.exited THEN first ELSE Scan(chars, mid + 1, hi, first)

RECURSIVE FromStr(_)
RECURSIVE Collect(_, _, _)
\* the map and collect of from_str: each inner set parsed in turn, the first
\* error returned, the parsed sets inserted into a BTreeSet
Collect(inner_sets, i, versions) ==
    IF i > Len(inner_sets) THEN Ok(versions)
    ELSE LET parsed == FromStr(inner_sets[i])
         IN  IF parsed.kind # "Ok" THEN parsed
             ELSE Collect(inner_sets, i + 1, BTreeSetInsert(versions, parsed.val))

\* from_str without the check of versions.len() against inner_sets.len()
FromStrNoUniqueCheck(value) ==
    IF StrLen(value) < 2 THEN Err("Empty")
    ELSE IF Head(value) # OpenBrace THEN IllegalCharacter(Head(value))
    ELSE LET chars == Tail(value)
             scan == Scan(chars, 1, Len(chars), ScanStart)
             inner_sets == SubSeq(scan.inner_sets, 1, Len(scan.inner_sets) - 1)
         IN  IF scan.illegal # NoChar THEN IllegalCharacter(scan.illegal)
             ELSE IF scan.brace_level # 0 THEN Err("UnclosedBrace")
             ELSE IF scan.taken < Len(chars) THEN Err("TooManySets")
             ELSE IF inner_sets = <<>> THEN Ok(Default)
             ELSE Collect(inner_sets, 1, <<>>)

\* from_str that reports the string too short only when it is empty
FromStrEmptyOnly(value) ==
    IF value = <<>> THEN Err("Empty")
    ELSE IF Head(value) # OpenBrace THEN IllegalCharacter(Head(value))
    ELSE LET chars == Tail(value)
             scan == Scan(chars, 1, Len(chars), ScanStart)
             inner_sets == SubSeq(scan.inner_sets, 1, Len(scan.inner_sets) - 1)
             collected == Collect(inner_sets, 1, <<>>)
         IN  IF scan.illegal # NoChar THEN IllegalCharacter(scan.illegal)
             ELSE IF scan.brace_level # 0 THEN Err("UnclosedBrace")
             ELSE IF scan.taken < Len(chars) THEN Err("TooManySets")
             ELSE IF inner_sets = <<>> THEN Ok(Default)
             ELSE IF collected.kind # "Ok" THEN collected
             ELSE IF Len(collected.val) < Len(inner_sets)
                  THEN Err("NonUniqueElements")
             ELSE collected

\* impl FromStr for SetVersion
FromStr(value) ==
    IF StrLen(value) < 2 THEN Err("Empty")
    ELSE IF Head(value) # OpenBrace THEN IllegalCharacter(Head(value))
    ELSE LET chars == Tail(value)
             scan == Scan(chars, 1, Len(chars), ScanStart)
             inner_sets == SubSeq(scan.inner_sets, 1, Len(scan.inner_sets) - 1)
             collected == Collect(inner_sets, 1, <<>>)
         IN  IF scan.illegal # NoChar THEN IllegalCharacter(scan.illegal)
             ELSE IF scan.brace_level # 0 THEN Err("UnclosedBrace")
             ELSE IF scan.taken < Len(chars) THEN Err("TooManySets")
             ELSE IF inner_sets = <<>> THEN Ok(Default)
             ELSE IF collected.kind # "Ok" THEN collected
             ELSE IF Len(collected.val) < Len(inner_sets)
                  THEN Err("NonUniqueElements")
             ELSE collected

\* ------------------------------------------------------------------ codec
RECURSIVE Pow2(_)
Pow2(n) == IF n = 0 THEN 1 ELSE 2 * Pow2(n - 1)

RECURSIVE BitOr(_, _)
\* the operator | on unsigned integers
BitOr(x, y) ==
    IF x = 0 THEN y
    ELSE IF y = 0 THEN x
    ELSE (IF x % 2 = 1 \/ y % 2 = 1 THEN 1 ELSE 0) + 2 * BitOr(x \div 2, y \div 2)

\* the operator >> on a u8
Shr(x, n) == x \div Pow2(n)

\* Vec::reverse, and Chars::rev
Reverse(s) == [i \in 1..Len(s) |-> s[Len(s) + 1 - i]]

\* Vec<u8>, or the panic that ended the call
NoBytes == <<>>
BytesOk(b) == [panic |-> FALSE, bytes |-> b]
BytesPanic == [panic |-> TRUE, bytes |-> NoBytes]

\* The variables of the loop `for c in setver.chars().rev()` of
\* string_to_integralternative_bytes: current_byte, bytes and bit_count,
\* with panic, whether unreachable!() ended the call.
\* Before the loop: current_byte = 0, bytes = Vec::new(), bit_count = 0.
PackStart == [panic |-> FALSE, current_byte |-> 0, bytes |-> <<>>, bit_count |-> 0]

\* one turn of the loop, for the character c
PackStep(st, c) ==
    IF st.panic THEN st
    ELSE IF c \notin Braces THEN [st EXCEPT !.panic = TRUE]
    ELSE LET shifted == BitOr(Shr(st.current_byte, 1),
                              IF c = OpenBrace THEN 0 ELSE Pow2(U8Bits - 1))
         IN  IF st.bit_count + 1 > U8Bits - 1
             THEN [st EXCEPT !.bit_count = 0, !.current_byte = 0,
                             !.bytes = Append(@, shifted)]
             ELSE [st EXCEPT !.bit_count = @ + 1, !.current_byte = shifted]

RECURSIVE PackLoop(_, _, _, _)
\* the loop over the characters rev[lo..hi], in order
PackLoop(rev, lo, hi, st) ==
    IF lo > hi THEN st
    ELSE IF lo = hi THEN PackStep(st, rev[lo])
    ELSE LET mid == (lo + hi) \div 2
             first == PackLoop(rev, lo, mid, st)
         IN  IF first.panic THEN first ELSE PackLoop(rev, mid + 1, hi, first)

\* string_to_integralternative_bytes that pushes the last, incomplete byte
\* without shifting it down
StringToBytesNoShiftDown(setver) ==
    LET loop == PackLoop(Reverse(setver), 1, Len(setver), PackStart)
    IN  IF loop.panic THEN BytesPanic
        ELSE IF loop.bit_count # 0
        THEN BytesOk(Reverse(Append(loop.bytes, loop.current_byte)))
        ELSE BytesOk(Reverse(loop.bytes))

\* SetVersion::string_to_integralternative_bytes
string_to_integralternative_bytes(setver) ==
    LET loop == PackLoop(Reverse(setver), 1, Len(setver), PackStart)
    IN  IF loop.panic THEN BytesPanic
        ELSE IF loop.bit_count # 0
        THEN BytesOk(Reverse(Append(loop.bytes,
                                    Shr(loop.current_byte, U8Bits - loop.bit_count))))
        ELSE BytesOk(Reverse(loop.bytes))

\* SetVersion::to_integralternative_bytes
to_integralternative_bytes(self) == string_to_integralternative_bytes(Fmt(self))

\* A u128 is the sequence of its U128Bits bits, the most significant first.
Zeros(n) == [i \in 1..n |-> 0]
ZeroU128 == Zeros(U128Bits)

RECURSIVE BitsOf(_, _)
\* the n low bits of x, the most significant first
BitsOf(x, n) == IF n = 0 THEN <<>> ELSE BitsOf(x \div 2, n - 1) \o <<x % 2>>

\* `byte as u128`
AsU128(byte) == Zeros(U128Bits - U8Bits) \o BitsOf(byte, U8Bits)

\* `result << 8` on a u128: the bits shifted out are lost
Shl8(result) == SubSeq(result, U8Bits + 1, U128Bits) \o Zeros(U8Bits)

\* the operator | on two u128
OrU128(x, y) == [i \in 1..U128Bits |-> IF x[i] = 1 \/ y[i] = 1 THEN 1 ELSE 0]

\* u128, or the panic that ended the call (and returned no number)
NoNum == <<>>
IntOk(n) == [panic |-> FALSE, num |-> n]
IntPanic == [panic |-> TRUE, num |-> NoNum]

RECURSIVE Fold(_, _, _)
\* the loop `for byte in vec` of u128_from_vec
Fold(vec, i, result) ==
    IF i > Len(vec) THEN result
    ELSE Fold(vec, i + 1, OrU128(Shl8(result), AsU128(vec[i])))

\* u128_from_vec without the check of the length
U128FromVecUnchecked(vec) == IntOk(Fold(vec, 1, ZeroU128))

\* SetVersion::u128_from_vec
u128_from_vec(vec) ==
    IF Len(vec) > U128Bits \div U8Bits THEN IntPanic
    ELSE IntOk(Fold(vec, 1, ZeroU128))

\* SetVersion::string_to_integralternative
string_to_integralternative(setver) ==
    LET bytes == string_to_integralternative_bytes(setver)
    IN  IF bytes.panic THEN IntPanic ELSE u128_from_vec(bytes.bytes)

\* SetVersion::to_integralternative, impl From<&SetVersion> for u128
to_integralternative(self) ==
    LET bytes == to_integralternative_bytes(self)
    IN  IF bytes.panic THEN IntPanic ELSE u128_from_vec(bytes.bytes)

\* ----------------------------------------------------------------- inputs
\* the texts of at most n characters over the characters of alphabet
Texts(alphabet, n) == UNION {[1..k -> alphabet] : k \in 0..n}

RECURSIVE Depth(_, _)
\* opening minus closing braces among the first k characters of t
Depth(t, k) ==
    IF k = 0 THEN 0
    ELSE Depth(t, k - 1) + (IF t[k] = OpenBrace THEN 1 ELSE -1)

\* t is exactly one Value of the grammar Value ::= '{' Value* '}'
Balanced(t) ==
    /\ Len(t) >= 2
    /\ \A k \in 1..Len(t) : t[k] \in Braces
    /\ \A k \in 1..(Len(t) - 1) : Depth(t, k) > 0
    /\ Depth(t, Len(t)) = 0

RECURSIVE BalancedOfPairs(_)
RECURSIVE Forests(_)
\* the sequences of Values of n pairs of braces in all
Forests(n) ==
    IF n = 0 THEN {<<>>}
    ELSE UNION {{v \o f : v \in BalancedOfPairs(j), f \in Forests(n - j)} : j \in 1..n}
\* the Values of exactly k pairs of braces
BalancedOfPairs(k) ==
    {<<OpenBrace>> \o f \o <<CloseBrace>> : f \in Forests(k - 1)}

\* the balanced texts of at most p pairs of braces
BalancedTexts(p) == UNION {BalancedOfPairs(k) : k \in 1..p}

RECURSIVE NumberText(_)
RECURSIVE NumbersBelow(_)
\* the texts of the numbers 0..n-1, one after the other
NumbersBelow(n) ==
    IF n = 0 THEN <<>> ELSE NumbersBelow(n - 1) \o NumberText(n - 1)
\* the text examples/number_to_setver.rs prints for n: the set of the
\* numbers below n
NumberText(n) == <<OpenBrace>> \o NumbersBelow(n) \o <<CloseBrace>>

RECURSIVE MembersText(_, _)
\* the texts of the numbers i, i+1, ... whose bit is set in m
MembersText(m, i) ==
    IF m = 0 THEN <<>>
    ELSE (IF m % 2 = 1 THEN NumberText(i) ELSE <<>>) \o MembersText(m \div 2, i + 1)

\* the text, of 2 + 2 * m characters, of the set of the numbers whose bit
\* is set in m
NumberSetText(m) == <<OpenBrace>> \o MembersText(m, 0) \o <<CloseBrace>>

\* the lengths around the width of a u128
LongLens == (U128Bits - LongSlack)..(U128Bits + LongSlack)

\* long brace texts: one brace repeated, then a short tail
PaddedTexts ==
    {[i \in 1..n |-> c] \o tail :
        c \in Braces, n \in LongLens, tail \in Texts(Braces, MaxTailLen)}

\* long texts of sets of numbers
LongSetTexts == {NumberSetText(m) : m \in {k \in 0..U128Bits : 2 + 2 * k \in LongLens}}

\* the texts of tests::integralternative
\* "{{}{{{}}{{}{{}}}}}", whose encoding is 35999
TestText35999 ==
    <<"{", "{", "}", "{", "{", "{", "}", "}", "{", "{", "}", "{", "{", "}",
      "}", "}", "}", "}">>
\* "{{{{}}{}}{{}}}", whose encoding is 871
TestText871 ==
    <<"{", "{", "{", "{", "}", "}", "{", "}", "}", "{", "{", "}", "}", "}">>
\* "{{{}}{{{}}{}}}", whose encoding is 1591
TestText1591 ==
    <<"{", "{", "{", "}", "}", "{", "{", "{", "}", "}", "{", "}", "}", "}">>
TestTexts == {TestText35999, TestText871, TestText1591}

ParserTexts == Texts(Alphabet, MaxMixedLen) \cup BalancedTexts(MaxPairs)
PairTexts == BalancedTexts(MaxPairPairs)
\* ------------------------------------------------------------------ state
VARIABLES
    text,   \* the first text given to the library
    text2,  \* the second text given to the library
    r1,     \* text.parse::<SetVersion>()
    r2,     \* text2.parse::<SetVersion>()
    s1,     \* r1's SetVersion formatted (to_string)
    s2,     \* r2's SetVersion formatted
    out     \* the last comparison or encoding asked for, and its result

vars == <<text, text2, r1, r2, s1, s2, out>>

NotShown == [shown |-> FALSE, str |-> <<>>]
Shown(str) == [shown |-> TRUE, str |-> str]

NoOut ==
    [op |-> "none", swapped |-> FALSE, flag |-> FALSE, f32 |-> "",
     panic |-> FALSE, bytes |-> NoBytes, num |-> NoNum]
FlagOut(op, swapped, flag) == [NoOut EXCEPT !.op = op, !.swapped = swapped, !.flag = flag]
F32Out(op, swapped, f32) == [NoOut EXCEPT !.op = op, !.swapped = swapped, !.f32 = f32]
BytesOut(op, res) == [NoOut EXCEPT !.op = op, !.panic = res.panic, !.bytes = res.bytes]
IntOut(op, res) == [NoOut EXCEPT !.op = op, !.panic = res.panic, !.num = res.num]

\* the receiver and the argument of a comparison
Self(swapped) == IF swapped THEN r2.val ELSE r1.val
Other(swapped) == IF swapped THEN r1.val ELSE r2.val

InitResults ==
    /\ r1 = NoResult /\ r2 = NoResult
    /\ s1 = NotShown /\ s2 = NotShown
    /\ out = NoOut

\* ---------------------------------------------------------------- actions
\* text.parse::<SetVersion>()
Parse1 ==
    /\ r1.kind = "None"
    /\ r1' = FromStr(text)
    /\ UNCHANGED <<text, text2, r2, s1, s2, out>>

\* text2.parse::<SetVersion>()
Parse2 ==
    /\ r2.kind = "None"
    /\ r2' = FromStr(text2)
    /\ UNCHANGED <<text, text2, r1, s1, s2, out>>

\* to_string() of the first parsed version
Display1 ==
    /\ r1.kind = "Ok" /\ ~s1.shown
    /\ s1' = Shown(Fmt(r1.val))
    /\ UNCHANGED <<text, text2, r1, r2, s2, out>>

\* to_string() of the second parsed version
Display2 ==
    /\ r2.kind = "Ok" /\ ~s2.shown
    /\ s2' = Shown(Fmt(r2.val))
    /\ UNCHANGED <<text, text2, r1, r2, s1, out>>

SetverCompare ==
    /\ r1.kind = "Ok" /\ r2.kind = "Ok"
    /\ \E sw \in BOOLEAN :
         out' = F32Out("setver_compare", sw, setver_compare(Self(sw), Other(sw)))
    /\ UNCHANGED <<text, text2, r1, r2, s1, s2>>

IsSubset ==
    /\ r1.kind = "Ok" /\ r2.kind = "Ok"
    /\ \E sw \in BOOLEAN :
         out' = FlagOut("is_subset", sw, is_subset(Self(sw), Other(sw)))
    /\ UNCHANGED <<text, text2, r1, r2, s1, s2>>

IsSuperset ==
    /\ r1.kind = "Ok" /\ r2.kind = "Ok"
    /\ \E sw \in BOOLEAN :
         out' = FlagOut("is_superset", sw, is_superset(Self(sw), Other(sw)))
    /\ UNCHANGED <<text, text2, r1, r2, s1, s2>>

IsStrictSubset ==
    /\ r1.kind = "Ok" /\ r2.kind = "Ok"
    /\ \E sw \in BOOLEAN :
         out' = FlagOut("is_strict_subset", sw, is_strict_subset(Self(sw), Other(sw)))
    /\ UNCHANGED <<text, text2, r1, r2, s1, s2>>

IsStrictSuperset ==
    /\ r1.kind = "Ok" /\ r2.kind = "Ok"
    /\ \E sw \in BOOLEAN :
         out' = FlagOut("is_strict_superset", sw,
                        is_strict_superset(Self(sw), Other(sw)))
    /\ UNCHANGED <<text, text2, r1, r2, s1, s2>>

\* SetVersion::string_to_integralternative_bytes(text)
StringToBytes ==
    /\ out' = BytesOut("string_to_integralternative_bytes",
                       string_to_integralternative_bytes(text))
    /\ UNCHANGED <<text, text2, r1, r2, s1, s2>>

\* SetVersion::string_to_integralternative(text)
StringToInt ==
    /\ out' = IntOut("string_to_integralternative", string_to_integralternative(text))
    /\ UNCHANGED <<text, text2, r1, r2, s1, s2>>

\* to_integralternative_bytes() of the first parsed version
ToBytes ==
    /\ r1.kind = "Ok"
    /\ out' = BytesOut("to_integralternative_bytes", to_integralternative_bytes(r1.val))
    /\ UNCHANGED <<text, text2, r1, r2, s1, s2>>

\* to_integralternative() of the first parsed version
ToInt ==
    /\ r1.kind = "Ok"
    /\ out' = IntOut("to_integralternative", to_integralternative(r1.val))
    /\ UNCHANGED <<text, text2, r1, r2, s1, s2>>

\* --------------------------------------------------------- specifications
\* the parser and the formatter on one text
Init ==
    /\ text \in ParserTexts /\ text2 = <<>>
    /\ InitResults

Next == Parse1 \/ Display1

Spec == Init /\ [][Next]_vars

\* the parser and the formatter on two balanced texts
InitPair ==
    /\ text \in PairTexts /\ text2 \in PairTexts
    /\ InitResults

NextPair == Parse1 \/ Parse2 \/ Display1 \/ Display2

SpecPair == InitPair /\ [][NextPair]_vars

\* the comparator: two balanced texts, parsed and compared
InitCompare ==
    /\ text \in PairTexts /\ text2 \in PairTexts
    /\ InitResults

NextCompare ==
    \/ Parse1 \/ Parse2
    \/ SetverCompare \/ IsSubset \/ IsSuperset \/ IsStrictSubset \/ IsStrictSuperset

SpecCompare == InitCompare /\ [][NextCompare]_vars

\* the codec: one brace text, encoded as written and as parsed
InitCodec ==
    /\ \/ text \in Texts(Braces, MaxCodecLen)
       \/ text \in PairTexts \cup TestTexts
       \/ text \in PaddedTexts \cup LongSetTexts
    /\ text2 = <<>>
    /\ InitResults

NextCodec == Parse1 \/ StringToBytes \/ StringToInt \/ ToBytes \/ ToInt

SpecCodec == InitCodec /\ [][NextCodec]_vars

\* ------------------------------------------------- what the texts denote
RECURSIVE FirstClose(_, _)
\* the position, from k on, of the brace closing the Value that s begins with
FirstClose(s, k) == IF Depth(s, k) = 0 THEN k ELSE FirstClose(s, k + 1)

RECURSIVE Split(_)
\* the Values written one after the other in s
Split(s) ==
    IF s = <<>> THEN <<>>
    ELSE LET k == FirstClose(s, 1)
         IN  <<SubSeq(s, 1, k)>> \o Split(SubSeq(s, k + 1, Len(s)))

\* the children written in the balanced text t
Children(t) == Split(SubSeq(t, 2, Len(t) - 1))

RECURSIVE Denote(_)
\* the mathematical set the balanced text t denotes
Denote(t) == {Denote(Children(t)[i]) : i \in 1..Len(Children(t))}

RECURSIVE HasDuplicate(_)
\* some set written in t, at some nesting level, has two children that
\* denote the same set
HasDuplicate(t) ==
    LET cs == Children(t)
    IN  \/ \E i, j \in 1..Len(cs) : i < j /\ Denote(cs[i]) = Denote(cs[j])
        \/ \E i \in 1..Len(cs) : HasDuplicate(cs[i])

\* a valid text: one balanced Value without duplicate children
Valid(t) == Balanced(t) /\ ~HasDuplicate(t)

RECURSIVE SetLess(_, _)
RECURSIVE Sorted(_)
RECURSIVE LexLess(_, _)
\* the least member of the non-empty set S in the canonical order
Least(S) == CHOOSE x \in S : \A y \in S \ {x} : SetLess(x, y)
\* the members of S in ascending canonical order
Sorted(S) == IF S = {} THEN <<>> ELSE <<Least(S)>> \o Sorted(S \ {Least(S)})
\* lexicographic comparison of two sequences of sets, a strict prefix first
LexLess(p, q) ==
    IF q = <<>> THEN FALSE
    ELSE IF p = <<>> THEN TRUE
    ELSE IF SetLess(Head(p), Head(q)) THEN TRUE
    ELSE IF SetLess(Head(q), Head(p)) THEN FALSE
    ELSE LexLess(Tail(p), Tail(q))
\* the canonical order of sets: the empty set first, otherwise the sorted
\* child sequences compared lexicographically
SetLess(A, B) ==
    IF A = {} THEN B # {}
    ELSE IF B = {} THEN FALSE
    ELSE LexLess(Sorted(A), Sorted(B))

RECURSIVE CanonicalValue(_)
\* in the balanced text t, at every nesting level, the children are written
\* in strictly ascending canonical order (so they are pairwise distinct)
CanonicalValue(t) ==
    LET cs == Children(t)
    IN  /\ \A i, j \in 1..Len(cs) : i < j => SetLess(Denote(cs[i]), Denote(cs[j]))
        /\ \A i \in 1..Len(cs) : CanonicalValue(cs[i])

\* a canonical text
Canonical(t) == Balanced(t) /\ CanonicalValue(t)

\* ------------------------------------------------------ parser, formatter
\* C1: round-trip fixed point.  For every canonical text (one balanced Value
\* whose children are, at every nesting level, written in strictly ascending
\* canonical order: the empty set first, otherwise the sorted child sequences
\* compared lexicographically, a strict prefix first), parse succeeds and
\* format of the parsed value is exactly the text.
C1_RoundTrip ==
    Canonical(text) =>
        /\ r1.kind # "None" => r1.kind = "Ok"
        /\ s1.shown => s1.str = text

\* a canonical text of at least two children, none of them the empty set
\* (their order is decided by the lexicographic rule), parsed and formatted
C1_Witness ==
    /\ Canonical(text) /\ s1.shown
    /\ Len(Children(text)) >= 2
    /\ \A i \in 1..Len(Children(text)) : Len(Children(text)[i]) > 2

\* C2: order independence.  Two valid texts that denote the same set parse
\* to equal values, and the two values format to the same text.
C2_OrderIndependence ==
    (Valid(text) /\ Valid(text2) /\ Denote(text) = Denote(text2)) =>
        /\ r1.kind # "None" => r1.kind = "Ok"
        /\ r2.kind # "None" => r2.kind = "Ok"
        /\ (r1.kind = "Ok" /\ r2.kind = "Ok") => Eq(r1.val, r2.val) /\ r1.val = r2.val
        /\ (s1.shown /\ s2.shown) => s1.str = s2.str

\* two different texts of the same set, whose children are themselves
\* written in different orders, both parsed and formatted
C2_Witness ==
    /\ Valid(text) /\ Valid(text2) /\ Denote(text) = Denote(text2)
    /\ text # text2
    /\ Len(Children(text)) = 1 /\ Children(text) # Children(text2)
    /\ s1.shown /\ s2.shown

\* the first character of t that is no brace (0 when there is none)
FirstNonBrace(t) ==
    IF \A i \in 1..Len(t) : t[i] \in Braces THEN 0
    ELSE CHOOSE i \in 1..Len(t) :
            t[i] \notin Braces /\ \A j \in 1..(i - 1) : t[j] \in Braces

\* the bytes of the text t
Bytes(t) == Len(t) + Cardinality({i \in 1..Len(t) : t[i] = "U+00E9"})

\* C6 as claimed: a text with a character other than a brace fails with
\* IllegalCharacter of the first such character, wherever it occurs, and a
\* first character that is not '{' is reported as IllegalCharacter of it.
C6_Original ==
    r1.kind # "None" =>
        /\ FirstNonBrace(text) # 0 => r1 = IllegalCharacter(text[FirstNonBrace(text)])
        /\ (text # <<>> /\ text[1] # OpenBrace) => r1 = IllegalCharacter(text[1])

\* C6, amended: a text shorter than two bytes fails with Empty; a longer
\* text whose first character is not '{' fails with IllegalCharacter of that
\* first character; a text that begins with '{' and has a character other
\* than a brace fails with IllegalCharacter of the first such character when
\* the brace closing the top-level Value does not come before it, and with
\* TooManySets when it does.
C6_IllegalCharacter ==
    r1.kind # "None" =>
        IF Bytes(text) < 2 THEN r1 = Err("Empty")
        ELSE IF text[1] # OpenBrace THEN r1 = IllegalCharacter(text[1])
        ELSE LET k == FirstNonBrace(text)
             IN  k # 0 =>
                    IF \E j \in 1..(k - 1) : Depth(text, j) = 0
                    THEN r1 = Err("TooManySets")
                    ELSE r1 = IllegalCharacter(text[k])

\* a text that begins with '{' and holds two different illegal characters
\* inside the Value, after some braces: the first one is reported
C6_Witness ==
    /\ r1.kind = "IllegalCharacter"
    /\ Len(text) >= 2 /\ text[1] = OpenBrace
    /\ FirstNonBrace(text) >= 3
    /\ r1.ch = text[FirstNonBrace(text)]
    /\ \E j \in (FirstNonBrace(text) + 1)..Len(text) :
          text[j] \notin Braces /\ text[j] # r1.ch

RECURSIVE NoEqualChildren(_)
\* no set of the value v, at any nesting level, has two equal children
NoEqualChildren(v) ==
    /\ \A i, j \in 1..Len(v) : i < j => v[i] # v[j]
    /\ \A i \in 1..Len(v) : NoEqualChildren(v[i])

\* C7: uniqueness at every nesting level.  For a text that is one balanced
\* Value, parse fails with NonUniqueElements exactly when some set at some
\* nesting level has two children denoting the same set, and succeeds
\* otherwise; no parsed value has two equal children.
C7_Uniqueness ==
    /\ (Balanced(text) /\ r1.kind # "None") =>
          /\ r1.kind = "NonUniqueElements" <=> HasDuplicate(text)
          /\ ~HasDuplicate(text) => r1.kind = "Ok"
    /\ r1.kind = "Ok" => NoEqualChildren(r1.val)

\* a text rejected for two children that are written differently (in
\* different child orders) and denote the same set
C7_Witness ==
    /\ Balanced(text) /\ r1.kind = "NonUniqueElements"
    /\ \E i, j \in 1..Len(Children(text)) :
          /\ Children(text)[i] # Children(text)[j]
          /\ Denote(Children(text)[i]) = Denote(Children(text)[j])
    /\ \A i \in 1..Len(Children(text)) : ~HasDuplicate(Children(text)[i])

\* ------------------------------------------------------------- comparator
\* the sets the receiver and the argument of the last comparison denote
SelfSet == IF out.swapped THEN Denote(text2) ELSE Denote(text)
OtherSet == IF out.swapped THEN Denote(text) ELSE Denote(text2)

\* C3 as claimed: setver_compare is four-valued: 1 exactly when the two sets
\* are equal, 0 exactly when the receiver is a strict subset, +infinity
\* exactly when it is a strict superset, NaN exactly when neither is a
\* subset of the other.
C3_FourValued ==
    out.op = "setver_compare" =>
        /\ out.f32 = "1.0" <=> SelfSet = OtherSet
        /\ out.f32 = "0.0" <=> (SelfSet \subseteq OtherSet /\ SelfSet # OtherSet)
        /\ out.f32 = "inf" <=> (OtherSet \subseteq SelfSet /\ SelfSet # OtherSet)
        /\ out.f32 = "NaN" <=> (~(SelfSet \subseteq OtherSet) /\ ~(OtherSet \subseteq SelfSet))

\* C4 as claimed: is_strict_subset(a, b) is true exactly when every child
\* of a is a child of b and a # b; is_strict_superset(a, b) exactly when
\* every child of b is a child of a and a # b.
C4_StrictSubset ==
    /\ out.op = "is_strict_subset" =>
          (out.flag <=> (SelfSet \subseteq OtherSet /\ SelfSet # OtherSet))
    /\ out.op = "is_strict_superset" =>
          (out.flag <=> (OtherSet \subseteq SelfSet /\ SelfSet # OtherSet))

\* C5 as claimed: strict subset is asymmetric: is_strict_subset(a, b)
\* implies not is_strict_subset(b, a).
C5_Asymmetric ==
    (out.op = "is_strict_subset" /\ out.flag) =>
        ~is_strict_subset(Other(out.swapped), Self(out.swapped))

\* ------------------------------------------------------------------ codec
\* the binary digits of the brace text t, '{' = 0 and '}' = 1
Digits(t) == [i \in 1..Len(t) |-> IF t[i] = CloseBrace THEN 1 ELSE 0]

\* the u128 whose binary digits are those of the text t of at most
\* U128Bits characters, the first character the most significant
BinaryOf(t) == Zeros(U128Bits - Len(t)) \o Digits(t)

RECURSIVE ValueOf(_)
\* the number a short sequence of binary digits writes
ValueOf(d) ==
    IF d = <<>> THEN 0 ELSE 2 * ValueOf(SubSeq(d, 1, Len(d) - 1)) + d[Len(d)]

RECURSIVE BitsOfBytes(_)
\* the bits of the bytes, one byte after the other
BitsOfBytes(bytes) ==
    IF bytes = <<>> THEN <<>> ELSE BitsOf(Head(bytes), U8Bits) \o BitsOfBytes(Tail(bytes))

\* the text the last encoding asked for has encoded
EncodedText ==
    IF out.op \in {"to_integralternative", "to_integralternative_bytes"}
    THEN Fmt(r1.val) ELSE text

IntOps == {"string_to_integralternative", "to_integralternative"}
BytesOps == {"string_to_integralternative_bytes", "to_integralternative_bytes"}

\* C8: for every brace string of at most 128 characters,
\* string_to_integralternative is the binary number whose digits are the
\* characters read left to right, '{' = 0 and '}' = 1, also when the length
\* is no multiple of 8; to_integralternative(v) is that number for the
\* canonical text of v.
C8_BinaryNumber ==
    (out.op \in IntOps /\ Len(EncodedText) <= U128Bits) =>
        /\ ~out.panic
        /\ out.num = BinaryOf(EncodedText)

\* the text "{{{{}}{}}{{}}}" of tests::integralternative, of 14
\* characters (no multiple of 8) and not canonical, encoded as 871
C8_Witness ==
    /\ out.op = "string_to_integralternative" /\ ~out.panic
    /\ text = TestText871
    /\ Len(text) > U8Bits /\ Len(text) % U8Bits # 0
    /\ ValueOf(SubSeq(out.num, U128Bits - Len(text) + 1, U128Bits)) = 871
    /\ SubSeq(out.num, 1, U128Bits - Len(text)) = Zeros(U128Bits - Len(text))

\* C9 as claimed: the bytes returned are LSB-first: the first byte is the
\* least significant one, which holds the bits of the last eight characters.
C9_LsbFirst ==
    (out.op \in BytesOps /\ ~out.panic /\ out.bytes # <<>>) =>
        LET t == EncodedText
            last == SubSeq(t, IF Len(t) > U8Bits THEN Len(t) - U8Bits + 1 ELSE 1, Len(t))
        IN  out.bytes[1] = ValueOf(Digits(last))

\* C10: the integer encodings end in the overflow failure exactly when the
\* text has more than 128 braces (more than 16 bytes) and return the full
\* value otherwise; the byte encodings return all the bits of a brace text
\* of any length and never fail.
C10_NoTruncation ==
    /\ out.op \in IntOps =>
          /\ out.panic <=> Len(EncodedText) > U128Bits
          /\ out.panic <=> (Len(EncodedText) + U8Bits - 1) \div U8Bits > U128Bits \div U8Bits
          /\ ~out.panic => out.num = BinaryOf(EncodedText)
    /\ out.op \in BytesOps =>
          /\ ~out.panic
          /\ Len(out.bytes) = (Len(EncodedText) + U8Bits - 1) \div U8Bits
          /\ BitsOfBytes(out.bytes)
                = Zeros(U8Bits * Len(out.bytes) - Len(EncodedText)) \o Digits(EncodedText)

\* a parsed version whose canonical text has more than 128 braces: its
\* integer encoding fails
C10_Witness ==
    /\ out.op = "to_integralternative" /\ out.panic
    /\ r1.kind = "Ok" /\ Len(Fmt(r1.val)) > U128Bits
====
